---- MODULE Spec2Model ----
(***************************************************************************)
(* The item-consumption rules of components/consumable.py: the healing     *)
(* potion, the confusion scroll, the fireball scroll and the lightning     *)
(* scroll, acting on the actors of one game map, their inventories and     *)
(* the message log.                                                        *)
(*                                                                         *)
(* One action per activate method.  The engine is single-threaded and      *)
(* turn-based: every step is one complete activate call, including the     *)
(* calls it makes (Fighter.heal, Fighter.take_damage, Consumable.consume). *)
(* Python does not roll back on an exception: what a call changed before   *)
(* it raised stays changed.                                                *)
(***************************************************************************)
EXTENDS Integers, Sequences, FiniteSets

\* ---------------------------------------------------------------- bounds

\* The map is a strip of two rows, 0..MaxX wide.
MaxX == 2
\* Every fighter is built with max_hp = MaxHP and starts at full health.
MaxHP == 3
\* Nothing in consumable.py stops activate being called on an item that was
\* consumed before; the model follows at most MaxReuse such calls.
MaxReuse == 1

\* ------------------------------------------------------------- the world

Cells == (0..MaxX) \X {0, 1}

\* Entity 1 is the player; 2 and 3 are monsters.  GameMap.entities is
\* iterated in this order.
ActorIds == 1..3
Player == 1

\* The items in play, as built by their constructors.  A field a class does
\* not have is 0.
ITEMS ==
  << [cls |-> "HealingConsumable", amount |-> 2, number_of_turns |-> 0,
      damage |-> 0, radius |-> 0, maximum_range |-> 0],
     [cls |-> "ConfusionConsumable", amount |-> 0, number_of_turns |-> 2,
      damage |-> 0, radius |-> 0, maximum_range |-> 0],
     [cls |-> "ConfusionConsumable", amount |-> 0, number_of_turns |-> 3,
      damage |-> 0, radius |-> 0, maximum_range |-> 0],
     [cls |-> "FireballDamageConsumable", amount |-> 0, number_of_turns |-> 0,
      damage |-> 1, radius |-> 1, maximum_range |-> 0],
     [cls |-> "LightningDamageConsumable", amount |-> 0, number_of_turns |-> 0,
      damage |-> 2, radius |-> 0, maximum_range |-> 1] >>

ItemIds == 1..Len(ITEMS)

ItemsOfClass(c) == {i \in ItemIds : ITEMS[i].cls = c}

VARIABLES
  actors,       \* ActorIds -> [x, y, hp, max_hp, ai]
  inventory,    \* ActorIds -> the list Inventory.items of that actor
  parent,       \* ItemIds -> the actor whose Inventory is Item.parent
  visible,      \* Cells -> BOOLEAN: game_map.visible
  message_log,  \* the messages added by the latest activate call
  call,         \* the latest activate call and how it ended
  reuses        \* the activate calls made on an item no inventory holds

vars == <<actors, inventory, parent, visible, message_log, call, reuses>>

\* ------------------------------------------------------------------- AI
\* An ai is the chain of AI objects reached through previous_ai, outermost
\* first; None is the empty chain.

HostileEnemy == << [cls |-> "HostileEnemy", turns_remaining |-> 0] >>
NoAI == << >>

ConfusedEnemy(previous_ai, turns_remaining) ==
  << [cls |-> "ConfusedEnemy", turns_remaining |-> turns_remaining] >>
     \o previous_ai

previous_ai(ai) == Tail(ai)

\* Actor.is_alive: bool(self.ai)
is_alive(actor) == actor.ai # NoAI

\* ------------------------------------------------------------- geometry
\* Actor.distance is sqrt(dx^2 + dy^2).  The code only compares distances
\* with each other and with integers, so the model keeps the square.

DistSq(actor, xy) ==
  (xy[1] - actor.x) * (xy[1] - actor.x) + (xy[2] - actor.y) * (xy[2] - actor.y)

Pos(actor) == <<actor.x, actor.y>>

\* ActorIds as the list game_map.actors walks (dead actors are skipped when
\* the walk reaches them).
RECURSIVE IdList(_)
IdList(n) == IF n = 0 THEN << >> ELSE Append(IdList(n - 1), n)

Entities == IdList(Cardinality(ActorIds))

\* GameMap.get_actor_at_location: the first living actor on the tile, 0 for
\* None.
RECURSIVE FirstActorAt(_, _, _)
FirstActorAt(acts, ids, xy) ==
  IF ids = << >> THEN 0
  ELSE IF is_alive(acts[Head(ids)]) /\ Pos(acts[Head(ids)]) = xy
       THEN Head(ids)
       ELSE FirstActorAt(acts, Tail(ids), xy)

target_actor(acts, xy) == FirstActorAt(acts, Entities, xy)

\* -------------------------------------------------------------- Fighter

Max(a, b) == IF a >= b THEN a ELSE b
Min(a, b) == IF a <= b THEN a ELSE b

\* Fighter.hp setter: clamp to 0..max_hp; at 0 a living actor dies (its ai
\* becomes None and a death message is logged).
SetHp(st, a, value) ==
  LET new == Max(0, Min(value, st.actors[a].max_hp))
      dies == new = 0 /\ is_alive(st.actors[a])
  IN [st EXCEPT
        !.actors[a].hp = new,
        !.actors[a].ai = IF dies THEN NoAI ELSE @,
        !.log = IF dies THEN Append(@, "death") ELSE @]

\* Fighter.take_damage
take_damage(st, a, amount) == SetHp(st, a, st.actors[a].hp - amount)

\* Fighter.heal: the new state and the amount recovered.
heal(st, a, amount) ==
  IF st.actors[a].hp = st.actors[a].max_hp
  THEN [st |-> st, recovered |-> 0]
  ELSE LET new == Min(st.actors[a].hp + amount, st.actors[a].max_hp)
       IN [st |-> SetHp(st, a, new), recovered |-> new - st.actors[a].hp]

\* ------------------------------------------------------------ Consumable

RemoveFirst(s, e) ==
  LET i == CHOOSE k \in 1..Len(s) : s[k] = e /\ \A j \in 1..(k - 1) : s[j] # e
  IN SubSeq(s, 1, i - 1) \o SubSeq(s, i + 1, Len(s))

InSeq(s, e) == \E k \in 1..Len(s) : s[k] = e

\* Item.parent of an item that lies on the map: the GameMap, no Inventory.
OnFloor == 0

\* A consume that drops the first item of the list, not the consumed one.
consume_PopFirst(st, item) ==
  LET owner == parent[item]
  IN IF owner = OnFloor THEN [st EXCEPT !.result = "returned"]
     ELSE IF InSeq(st.inventory[owner], item)
     THEN [st EXCEPT !.inventory[owner] = Tail(@), !.result = "returned"]
     ELSE [st EXCEPT !.result = "ValueError"]

\* Consumable.consume: list.remove on the parent inventory's items; it
\* raises ValueError when the item is not in that list.
consume(st, item) ==
  LET owner == parent[item]
  IN IF owner = OnFloor THEN [st EXCEPT !.result = "returned"]
     ELSE IF InSeq(st.inventory[owner], item)
     THEN [st EXCEPT !.inventory[owner] = RemoveFirst(@, item),
                     !.result = "returned"]
     ELSE [st EXCEPT !.result = "ValueError"]

Impossible(st, why) == [st EXCEPT !.result = "Impossible", !.why = why]

\* The state an activate call starts from.
Start ==
  [actors |-> actors, inventory |-> inventory, log |-> << >>,
   result |-> "running", why |-> ""]

\* A potion that is drunk whatever heal returns.
HealingActivate_NoFullCheck(item, consumer) ==
  LET h == heal(Start, consumer, ITEMS[item].amount)
  IN IF h.recovered >= 0
     THEN consume([h.st EXCEPT !.log = Append(@, "healed")], item)
     ELSE Impossible(h.st, "full_health")

\* HealingConsumable.activate
HealingActivate(item, consumer) ==
  LET h == heal(Start, consumer, ITEMS[item].amount)
  IN IF h.recovered > 0
     THEN consume([h.st EXCEPT !.log = Append(@, "healed")], item)
     ELSE Impossible(h.st, "full_health")

\* A scroll without the test for the consumer.
ConfusionActivate_NoSelfCheck(item, consumer, target_xy) ==
  LET target == target_actor(actors, target_xy)
  IN IF ~visible[target_xy] THEN Impossible(Start, "not_visible")
     ELSE IF target = 0 THEN Impossible(Start, "no_target")
     ELSE consume(
            [Start EXCEPT
               !.log = Append(@, "confused"),
               !.actors[target].ai =
                  ConfusedEnemy(@, ITEMS[item].number_of_turns)],
            item)

\* A scroll that does not stack: on a confused target it keeps the
\* previous_ai of the confusion in force.
ConfusionActivate_NoStack(item, consumer, target_xy) ==
  LET target == target_actor(actors, target_xy)
  IN IF ~visible[target_xy] THEN Impossible(Start, "not_visible")
     ELSE IF target = 0 THEN Impossible(Start, "no_target")
     ELSE IF target = consumer THEN Impossible(Start, "self_target")
     ELSE consume(
            [Start EXCEPT
               !.log = Append(@, "confused"),
               !.actors[target].ai =
                  ConfusedEnemy(IF Head(@).cls = "ConfusedEnemy"
                                THEN previous_ai(@) ELSE @,
                                ITEMS[item].number_of_turns)],
            item)

\* A scroll that logs its message before it tests the target.
ConfusionActivate_LogFirst(item, consumer, target_xy) ==
  LET target == target_actor(actors, target_xy)
      logged == [Start EXCEPT !.log = Append(@, "confused")]
  IN IF ~visible[target_xy] THEN Impossible(Start, "not_visible")
     ELSE IF target = 0 THEN Impossible(logged, "no_target")
     ELSE IF target = consumer THEN Impossible(logged, "self_target")
     ELSE consume(
            [logged EXCEPT
               !.actors[target].ai =
                  ConfusedEnemy(@, ITEMS[item].number_of_turns)],
            item)

\* ConfusionConsumable.activate
ConfusionActivate(item, consumer, target_xy) ==
  LET target == target_actor(actors, target_xy)
  IN IF ~visible[target_xy] THEN Impossible(Start, "not_visible")
     ELSE IF target = 0 THEN Impossible(Start, "no_target")
     ELSE IF target = consumer THEN Impossible(Start, "self_target")
     ELSE consume(
            [Start EXCEPT
               !.log = Append(@, "confused"),
               !.actors[target].ai =
                  ConfusedEnemy(@, ITEMS[item].number_of_turns)],
            item)

\* The test with < for <=.
InRadius_Strict(actor, xy, radius) == DistSq(actor, xy) < radius * radius

\* The test of the fireball's loop: distance <= radius.
InRadius(actor, xy, radius) == DistSq(actor, xy) <= radius * radius

\* The loop of FireballDamageConsumable.activate over game_map.actors.
RECURSIVE FireballLoop(_, _, _, _, _)
FireballLoop(ids, st, hit, item, xy) ==
  IF ids = << >> THEN [st |-> st, targets_hit |-> hit]
  ELSE LET a == Head(ids)
       IN IF is_alive(st.actors[a]) /\ InRadius(st.actors[a], xy, ITEMS[item].radius)
          THEN FireballLoop(
                 Tail(ids),
                 take_damage([st EXCEPT !.log = Append(@, "explosion")],
                             a, ITEMS[item].damage),
                 TRUE, item, xy)
          ELSE FireballLoop(Tail(ids), st, hit, item, xy)

\* A fireball that tests the visibility of the target after the explosion.
FireballActivate_LateVisibility(item, consumer, target_xy) ==
  LET r == FireballLoop(Entities, Start, FALSE, item, target_xy)
  IN IF ~r.targets_hit THEN Impossible(r.st, "no_targets_in_radius")
     ELSE IF ~visible[target_xy] THEN Impossible(r.st, "not_visible")
     ELSE consume(r.st, item)

\* FireballDamageConsumable.activate
FireballActivate(item, consumer, target_xy) ==
  IF ~visible[target_xy] THEN Impossible(Start, "not_visible")
  ELSE LET r == FireballLoop(Entities, Start, FALSE, item, target_xy)
       IN IF ~r.targets_hit THEN Impossible(r.st, "no_targets_in_radius")
          ELSE consume(r.st, item)

\* The test with <= for <: on a tie the later actor wins.
Closer_OrEqual(dist_sq, closest_sq) == dist_sq <= closest_sq

\* The test of the lightning's loop: distance < closest_distance, where
\* closest_distance starts at maximum_range + 1.0.
Closer(dist_sq, closest_sq) == dist_sq < closest_sq

\* The loop of LightningDamageConsumable.activate: the target (0 for None)
\* and the square of closest_distance.
RECURSIVE LightningLoop(_, _, _, _)
LightningLoop(ids, consumer, target, closest_sq) ==
  IF ids = << >> THEN target
  ELSE LET a == Head(ids)
           d == DistSq(actors[consumer], Pos(actors[a]))
       IN IF is_alive(actors[a]) /\ a # consumer /\ visible[Pos(actors[a])]
             /\ Closer(d, closest_sq)
          THEN LightningLoop(Tail(ids), consumer, a, d)
          ELSE LightningLoop(Tail(ids), consumer, target, closest_sq)

\* LightningDamageConsumable.activate
LightningActivate(item, consumer) ==
  LET start_sq == (ITEMS[item].maximum_range + 1) * (ITEMS[item].maximum_range + 1)
      target == LightningLoop(Entities, consumer, 0, start_sq)
  IN IF target # 0
     THEN consume(
            take_damage([Start EXCEPT !.log = Append(@, "lightning")],
                        target, ITEMS[item].damage),
            item)
     ELSE Impossible(Start, "no_enemy_near")

\* --------------------------------------------------------- the machine

NoCell == <<0 - 1, 0 - 1>>

\* The player stands in the corner <<0, 0>>, the two monsters on any two
\* other tiles; at most one tile of the map is out of sight; the player
\* has picked up two of the items, the others lie on the floor.
Init ==
  /\ \E pos \in [ActorIds -> Cells] :
       /\ pos[Player] = <<0, 0>>
       /\ \A a, b \in ActorIds : a # b => pos[a] # pos[b]
       /\ actors = [a \in ActorIds |->
                      [x |-> pos[a][1], y |-> pos[a][2], hp |-> MaxHP,
                       max_hp |-> MaxHP, ai |-> HostileEnemy]]
  /\ \E dark \in Cells \cup {NoCell} :
       visible = [c \in Cells |-> c # dark]
  /\ \E i, j \in ItemIds :
       /\ i < j
       /\ inventory = [a \in ActorIds |-> IF a = Player THEN <<i, j>> ELSE << >>]
       /\ parent = [k \in ItemIds |-> IF k \in {i, j} THEN Player ELSE OnFloor]
  /\ message_log = << >>
  /\ reuses = 0
  /\ call = [cls |-> "none", item |-> 0, consumer |-> 0, target_xy |-> NoCell,
             result |-> "none", why |-> ""]

\* ItemAction.perform: item.consumable.activate(action), with the state the
\* call leaves behind.
Perform(item, consumer, target_xy, end) ==
  /\ is_alive(actors[consumer])
  /\ IF InSeq(inventory[consumer], item)
     THEN reuses' = reuses
     ELSE reuses < MaxReuse /\ reuses' = reuses + 1
  /\ actors' = end.actors
  /\ inventory' = end.inventory
  /\ message_log' = end.log
  /\ call' = [cls |-> ITEMS[item].cls, item |-> item, consumer |-> consumer,
              target_xy |-> target_xy, result |-> end.result, why |-> end.why]
  /\ UNCHANGED <<parent, visible>>

ActivateHealing ==
  \E item \in ItemsOfClass("HealingConsumable") :
    LET consumer == parent[item]
    IN /\ consumer # OnFloor
       /\ Perform(item, consumer, Pos(actors[consumer]),
               HealingActivate(item, consumer))

ActivateConfusion ==
  \E item \in ItemsOfClass("ConfusionConsumable"), target_xy \in Cells :
    LET consumer == parent[item]
    IN /\ consumer # OnFloor
       /\ Perform(item, consumer, target_xy,
               ConfusionActivate(item, consumer, target_xy))

ActivateFireball ==
  \E item \in ItemsOfClass("FireballDamageConsumable"), target_xy \in Cells :
    LET consumer == parent[item]
    IN /\ consumer # OnFloor
       /\ Perform(item, consumer, target_xy,
               FireballActivate(item, consumer, target_xy))

ActivateLightning ==
  \E item \in ItemsOfClass("LightningDamageConsumable") :
    LET consumer == parent[item]
    IN /\ consumer # OnFloor
       /\ Perform(item, consumer, Pos(actors[consumer]),
               LightningActivate(item, consumer))

Next ==
  \/ ActivateHealing
  \/ ActivateConfusion
  \/ ActivateFireball
  \/ ActivateLightning

Spec == Init /\ [][Next]_vars

\* ============================================================ properties

Held(inv, item) == \E a \in ActorIds : InSeq(inv[a], item)

\* What one take_damage(amount) leaves of hp.
Damaged(hp, amount) == IF hp - amount < 0 THEN 0 ELSE hp - amount

HpOf(acts) == [a \in ActorIds |-> acts[a].hp]
AiOf(acts) == [a \in ActorIds |-> acts[a].ai]

\* C1: a fireball at a visible target_xy damages exactly the actors of
\* game_map.actors whose distance to target_xy is at most radius, each by
\* one take_damage(damage), the consumer included; every other actor keeps
\* its HP.
C1_FireballDamageIffWithinRadius ==
  [][(call'.cls = "FireballDamageConsumable" /\ visible[call'.target_xy]) =>
       \A a \in ActorIds :
         actors'[a].hp =
           IF /\ is_alive(actors[a])
              /\ DistSq(actors[a], call'.target_xy)
                   <= ITEMS[call'.item].radius * ITEMS[call'.item].radius
           THEN Damaged(actors[a].hp, ITEMS[call'.item].damage)
           ELSE actors[a].hp]_vars

\* The fireball went off around the consumer: the consumer, at distance
\* exactly radius, is hurt, and a monster beyond the radius is not.
C1_Witness ==
  /\ call.cls = "FireballDamageConsumable"
  /\ call.result = "returned"
  /\ DistSq(actors[Player], call.target_xy)
       = ITEMS[call.item].radius * ITEMS[call.item].radius
  /\ actors[Player].hp = MaxHP - ITEMS[call.item].damage
  /\ \E m \in ActorIds :
       /\ DistSq(actors[m], call.target_xy)
            > ITEMS[call.item].radius * ITEMS[call.item].radius
       /\ actors[m].hp = MaxHP

\* C2: a potion with a positive amount heals iff the consumer is below max
\* HP: then HP rises by the amount recovered, a message is logged and the
\* item is gone from the inventory; at max HP the call raises Impossible,
\* HP stays and the inventory stays.
C2_HealIffBelowMax ==
  [][(call'.cls = "HealingConsumable" /\ ITEMS[call'.item].amount > 0) =>
       LET c == call'.consumer
           room == actors[c].max_hp - actors[c].hp
           gain == IF ITEMS[call'.item].amount < room
                   THEN ITEMS[call'.item].amount ELSE room
       IN IF actors[c].hp < actors[c].max_hp
          THEN /\ actors'[c].hp = actors[c].hp + gain
               /\ actors'[c].hp > actors[c].hp
               /\ message_log' = <<"healed">>
               /\ ~Held(inventory', call'.item)
               /\ Held(inventory, call'.item) => call'.result = "returned"
          ELSE /\ call'.result = "Impossible"
               /\ actors' = actors
               /\ inventory' = inventory
               /\ message_log' = << >>]_vars

\* The potion was drunk by a hurt player: it healed less than its amount
\* (up to max HP) and left the inventory.
C2_Witness ==
  /\ call.cls = "HealingConsumable"
  /\ call.result = "returned"
  /\ actors[Player].hp = actors[Player].max_hp
  /\ ~Held(inventory, call.item)

\* C3: when the actor at target_xy is the consumer, the confusion scroll
\* raises Impossible, the consumer's ai is as before and the scroll is
\* where it was.
C3_ConfusionNotSelfTargetable ==
  [][(/\ call'.cls = "ConfusionConsumable"
      /\ target_actor(actors, call'.target_xy) = call'.consumer) =>
       /\ call'.result = "Impossible"
       /\ actors'[call'.consumer].ai = actors[call'.consumer].ai
       /\ inventory' = inventory]_vars

\* The player aimed a held scroll at the player's own, visible tile.
C3_Witness ==
  /\ call.cls = "ConfusionConsumable"
  /\ call.why = "self_target"
  /\ call.target_xy = Pos(actors[Player])
  /\ Held(inventory, call.item)

\* C4: a confusion scroll or fireball aimed at a tile that is not visible
\* raises Impossible for that reason, before any other test or effect:
\* nothing is damaged, confused, logged or consumed, whoever stands there.
C4_TargetOutOfSightRejected ==
  [][(/\ call'.cls \in {"ConfusionConsumable", "FireballDamageConsumable"}
      /\ ~visible[call'.target_xy]) =>
       /\ call'.result = "Impossible"
       /\ call'.why = "not_visible"
       /\ actors' = actors
       /\ inventory' = inventory
       /\ message_log' = << >>]_vars

\* A fireball was refused for a dark tile on which a living monster stands.
C4_Witness ==
  /\ call.cls = "FireballDamageConsumable"
  /\ call.why = "not_visible"
  /\ target_actor(actors, call.target_xy) \notin {0, Player}

\* The actors the lightning may strike according to C5: visible, not the
\* consumer, at distance at most maximum_range from the consumer.
InRange(acts, consumer, item) ==
  {a \in ActorIds :
     /\ is_alive(acts[a])
     /\ a # consumer
     /\ visible[Pos(acts[a])]
     /\ DistSq(acts[consumer], Pos(acts[a]))
          <= ITEMS[item].maximum_range * ITEMS[item].maximum_range}

\* C5: the lightning damages only actors that are visible, not the
\* consumer and at distance at most maximum_range; with no such actor it
\* raises Impossible and damages no one.
C5_LightningOnlyWithinMaximumRange ==
  [][call'.cls = "LightningDamageConsumable" =>
       LET ok == InRange(actors, call'.consumer, call'.item)
       IN /\ \A a \in ActorIds : actors'[a].hp # actors[a].hp => a \in ok
          /\ ok = {} => /\ call'.result = "Impossible"
                        /\ HpOf(actors') = HpOf(actors)]_vars

\* C6: once an item has been activated with success (it left the
\* inventory), no later activation of it changes an actor's HP or ai.
C6_SingleUse ==
  [][~Held(inventory, call'.item) =>
       /\ HpOf(actors') = HpOf(actors)
       /\ AiOf(actors') = AiOf(actors)]_vars

AtMostOneInventory ==
  \A i \in ItemIds : \A a, b \in ActorIds :
    (InSeq(inventory[a], i) /\ InSeq(inventory[b], i)) => a = b

\* C7: no item is ever in two inventories, and an activate call that
\* returns without raising took the item out of the inventory that held it
\* and left every other item where it was.
C7_ReturnedMeansConsumed ==
  /\ []AtMostOneInventory
  /\ [][call'.result = "returned" =>
          /\ InSeq(inventory[parent[call'.item]], call'.item)
          /\ ~Held(inventory', call'.item)
          /\ \A j \in ItemIds \ {call'.item} : \A a \in ActorIds :
               InSeq(inventory'[a], j) <=> InSeq(inventory[a], j)]_vars

\* An item was consumed while the player's other item stayed.
C7_Witness ==
  /\ call.result = "returned"
  /\ ~Held(inventory, call.item)
  /\ Len(inventory[Player]) = 1
  /\ inventory[Player][1] < call.item

\* C8: a confusion that succeeds puts on the target a ConfusedEnemy whose
\* turns_remaining is the scroll's number_of_turns and whose previous_ai is
\* the ai the target had before the call, confused or not.
C8_ConfusionKeepsPreviousAi ==
  [][(call'.cls = "ConfusionConsumable" /\ call'.result = "returned") =>
       LET t == target_actor(actors, call'.target_xy)
       IN /\ t \in ActorIds \ {call'.consumer}
          /\ Len(actors'[t].ai) = Len(actors[t].ai) + 1
          /\ Head(actors'[t].ai).cls = "ConfusedEnemy"
          /\ Head(actors'[t].ai).turns_remaining = ITEMS[call'.item].number_of_turns
          /\ previous_ai(actors'[t].ai) = actors[t].ai
          /\ \A a \in ActorIds \ {t} : actors'[a] = actors[a]]_vars

\* A second scroll succeeded on a monster the first scroll had confused.
C8_Witness ==
  /\ call.cls = "ConfusionConsumable"
  /\ call.result = "returned"
  /\ LET t == target_actor(actors, call.target_xy)
     IN /\ t # 0
        /\ Len(actors[t].ai) = 3
        /\ actors[t].ai[2].cls = "ConfusedEnemy"
        /\ actors[t].ai[1].turns_remaining # actors[t].ai[2].turns_remaining

\* C9: an activate call that raises Impossible leaves every actor, every
\* inventory and the message log as they were.
C9_RejectionChangesNothing ==
  [][call'.result = "Impossible" =>
       /\ actors' = actors
       /\ inventory' = inventory
       /\ message_log' = << >>]_vars

\* A fireball aimed at a visible tile with nobody within the radius, and a
\* scroll aimed at an empty visible tile, were refused.
C9_Witness ==
  /\ call.result = "Impossible"
  /\ call.why \in {"no_targets_in_radius", "no_target"}
  /\ visible[call.target_xy]
  /\ Len(inventory[Player]) = 2

\* The actors the lightning chooses among: living, visible, not the
\* consumer.
Candidates(acts, consumer) ==
  {a \in ActorIds :
     is_alive(acts[a]) /\ a # consumer /\ visible[Pos(acts[a])]}

\* C10: a lightning that succeeds damages exactly one actor, by one
\* take_damage(damage): the visible actor other than the consumer nearest
\* to the consumer, the first of game_map.actors on a tie.  Every other
\* actor, the consumer included, keeps its HP.
C10_LightningStrikesNearest ==
  [][(call'.cls = "LightningDamageConsumable" /\ call'.result = "returned") =>
       \E t \in Candidates(actors, call'.consumer) :
         /\ \A b \in Candidates(actors, call'.consumer) :
              LET dt == DistSq(actors[call'.consumer], Pos(actors[t]))
                  db == DistSq(actors[call'.consumer], Pos(actors[b]))
              IN dt < db \/ (dt = db /\ t <= b)
         /\ actors'[t].hp = Damaged(actors[t].hp, ITEMS[call'.item].damage)
         /\ actors'[t].hp < actors[t].hp
         /\ \A a \in ActorIds \ {t} : actors'[a].hp = actors[a].hp]_vars

\* The lightning chose between two visible monsters at the same distance
\* and struck the first.
C10_Witness ==
  /\ call.cls = "LightningDamageConsumable"
  /\ call.result = "returned"
  /\ visible[Pos(actors[2])] /\ visible[Pos(actors[3])]
  /\ DistSq(actors[Player], Pos(actors[2])) = DistSq(actors[Player], Pos(actors[3]))
  /\ actors[2].hp = MaxHP - ITEMS[call.item].damage
  /\ actors[3].hp = MaxHP
  /\ actors[Player].hp = MaxHP

====
